---- MODULE Spec2Model ----
(***************************************************************************)
(* Weather -> Spotify recommender (src/final_copy.py).                     *)
(*                                                                         *)
(* One pass of the Streamlit script is modelled by the actions Trigger     *)
(* (module top and the weather lookup), GenerateBasic / GenerateTempo /    *)
(* GenerateCustom, Render, RequestPlaylist, Publish and Finish.  The       *)
(* answers of the three external services are inputs chosen with \E.       *)
(*                                                                         *)
(* Python values: None is the record PyNone, a JSON object is a record     *)
(* with py = "dict" plus its keys, a list is a sequence.  The Korean UI    *)
(* texts are not expressible in TLA+ strings; each is a named ASCII        *)
(* constant with the original text in the comment beside it.               *)
(***************************************************************************)
EXTENDS Integers, Sequences, FiniteSets, TLC

VARIABLES
    pc,             \* position of the current run in the button handler
    city,           \* st.text_input, line 144
    mode,           \* st.selectbox, line 145
    track_limit,    \* st.slider, line 148
    min_bpm,        \* st.slider, line 161 (exists in Tempo mode only)
    user_kw,        \* st.text_input, line 164 (exists in Custom mode only)
    make_playlist,  \* st.checkbox, line 166
    APP_TOKEN,      \* module global, line 71
    HEADERS,        \* module global, line 72
    weather,        \* handler local, line 173
    kw,             \* local of generate_*, lines 95, 99, 118
    base,           \* local of generate_tempo, line 100
    feats,          \* local of generate_tempo, line 103
    tracks,         \* handler local, lines 181-187
    ids,            \* handler local, lines 195-203
    calls,          \* external requests issued by the current run, in order
    ui,             \* what the current run has written to the page, in order
    playlists,      \* playlists the current run has created in the account
    uncaught        \* exception that escaped to the Streamlit runtime

vars == <<pc, city, mode, track_limit, min_bpm, user_kw, make_playlist,
          APP_TOKEN, HEADERS, weather, kw, base, feats, tracks, ids, calls,
          ui, playlists, uncaught>>

-----------------------------------------------------------------------------
(* Bounds of the model *)

\* longest list the catalog search answers with
MaxPool == 7
\* track_limit ranges over MinTrackLimit..MinTrackLimit+LimitSpan and MaxTrackLimit
LimitSpan == 0

(* Program constants *)

MinTrackLimit == 5
MaxTrackLimit == 30
DefaultTrackLimit == 15
MinBpm == 60
MaxBpm == 180
DefaultBpm == 110
OversampleFactor == 3
HttpOk == 200
NumColumns == 3

-----------------------------------------------------------------------------
(* Python values *)

PyNone == [py |-> "None"]
NoException == "none"

\* bool(x) of a value that is None or a JSON object
Truthy(x) == x.py = "dict" /\ DOMAIN x # {"py"}

Take(s, n) == SubSeq(s, 1, IF Len(s) < n THEN Len(s) ELSE n)

Return(v) == [raised |-> NoException, value |-> v]
Raise(e) == [raised |-> e, value |-> PyNone]

\* An HTTP exchange: the request fails, the body is not JSON, or a JSON object
NetworkError == [kind |-> "network_error"]
NotJson == [kind |-> "not_json"]
Json(body) == [kind |-> "json", body |-> body]

-----------------------------------------------------------------------------
(* Text.  A weather condition is a sequence of one-character strings so that *)
(* str.lower() is computed character by character.                           *)

UpperLetters == <<"A","B","C","D","E","F","G","H","I","J","K","L","M",
                  "N","O","P","Q","R","S","T","U","V","W","X","Y","Z">>
LowerLetters == <<"a","b","c","d","e","f","g","h","i","j","k","l","m",
                  "n","o","p","q","r","s","t","u","v","w","x","y","z">>

LowerChar(c) ==
    IF \E i \in 1..26 : UpperLetters[i] = c
    THEN LowerLetters[CHOOSE i \in 1..26 : UpperLetters[i] = c]
    ELSE c

\* a lower() that leaves the text as it is
LowerUnchanged(s) == s

\* str.lower(), line 52
Lower(s) == [i \in 1..Len(s) |-> LowerChar(s[i])]

Digits == <<"0","1","2","3","4","5","6","7","8","9">>

\* strftime's zero-padded two-digit field (%m, %d, %H, %M), line 130
Pad2(n) == Digits[(n \div 10) + 1] \o Digits[(n % 10) + 1]

\* datetime.now().strftime('%m/%d %H:%M'), line 130
Strftime(now) ==
    Pad2(now.month) \o "/" \o Pad2(now.day) \o " " \o Pad2(now.hour) \o ":" \o Pad2(now.minute)

-----------------------------------------------------------------------------
(* UI texts *)

\* "날씨 정보를 찾을 수 없습니다." (weather information cannot be found), line 175
MsgWeatherNotFound == "weather-info-not-found"
\* "{city} 현재 날씨: {description} / {temp}°C", line 178
MsgCurrentWeather == "current-weather"
\* "추천 결과가 없습니다." (no recommendation results), line 190
MsgNoResults == "no-recommendation-results"
\* "🎶 추천 트랙", line 193
MsgTracksHeader == "recommended-tracks"
\* "## 📀 Spotify 플레이리스트 생성 중...", line 206
MsgCreatingPlaylist == "creating-playlist"
\* "✅ 플레이리스트 생성 완료!", line 209
MsgPlaylistCreated == "playlist-created"
\* "플레이리스트 생성 실패: " followed by str(e), line 212
MsgPlaylistFailedPrefix == "playlist-creation-failed: "
\* "날씨 기반 자동 추천 플레이리스트", line 132
PlaylistDescription == "weather-based-auto-recommendation-playlist"

-----------------------------------------------------------------------------
(* Weather *)

\* get_weather, lines 37-49: both the request and r.json() are inside the try
get_weather(resp) ==
    IF resp.kind = "json" THEN Return(resp.body) ELSE Return(PyNone)

\* weather_to_keyword, lines 51-60
weather_to_keyword(w) ==
    LET desc == Lower(w.main)
    IN  CASE desc = <<"c","l","e","a","r">> -> "happy pop bright"
          [] desc = <<"c","l","o","u","d","s">> -> "indie chill"
          [] desc = <<"r","a","i","n">> -> "lofi rainy chill"
          [] desc = <<"s","n","o","w">> -> "cozy acoustic"
          [] desc = <<"t","h","u","n","d","e","r","s","t","o","r","m">> -> "dark edm"
          [] OTHER -> "chill mood"

\* a test of the lookup's presence alone
WeatherRejectedNoStatus(w) == ~Truthy(w)

\* the handler's test, line 174: not weather or weather.get("cod") != 200
WeatherRejected(w) ==
    \/ ~Truthy(w)
    \/ ~("cod" \in DOMAIN w /\ w.cod = HttpOk)

-----------------------------------------------------------------------------
(* Spotify search with the application token *)

\* get_app_token, lines 65-69: no try block
get_app_token(resp) ==
    CASE resp.kind = "network_error" -> Raise("ConnectionError")
      [] resp.kind = "not_json" -> Raise("JSONDecodeError")
      [] OTHER ->
            IF "access_token" \in DOMAIN resp.body
            THEN Return([py |-> "str", s |-> resp.body.access_token])
            ELSE Return(PyNone)

\* line 72
HeadersFor(token) ==
    IF token.py = "str" /\ token.s # ""
    THEN [py |-> "dict", Authorization |-> "Bearer " \o token.s]
    ELSE [py |-> "dict"]

\* search_tracks, lines 74-81: r.json()["tracks"]["items"] inside the try
search_tracks(resp) ==
    IF resp.kind = "json" /\ "tracks" \in DOMAIN resp.body
                          /\ "items" \in DOMAIN resp.body.tracks
    THEN Return(resp.body.tracks.items)
    ELSE Return(<<>>)

\* get_audio_features, lines 83-89: r.json()["audio_features"] inside the try
get_audio_features(resp) ==
    IF resp.kind = "json" /\ "audio_features" \in DOMAIN resp.body
    THEN Return(resp.body.audio_features)
    ELSE Return(<<>>)

\* the request each of them sends (with the size of the search's
\* answer, and the step of the playlist creation that failed)
SearchCall(query, limit, items) ==
    [op |-> "search_tracks", q |-> query, limit |-> limit, returned |-> Len(items)]
FeaturesCall(idlist) == [op |-> "get_audio_features", ids |-> idlist]
WeatherCall(c) == [op |-> "get_weather", q |-> c]
PlaylistCall(c, uris, failAt) ==
    [op |-> "create_playlist_auto", city |-> c, ids |-> uris, failed |-> failAt]

-----------------------------------------------------------------------------
(* Recommendation modes *)

\* lines 102: ids = [t["id"] for t in base]
IdsOf(b) == [i \in 1..Len(b) |-> b[i].id]

\* a comprehension without its filter "if f"
LiveEntriesAll(fs) == 1..Len(fs)

\* line 104, the filter "if f" of the comprehension: the entries it keeps
LiveEntries(fs) == {k \in 1..Len(fs) : Truthy(fs[k])}

\* line 104: fmap = {f["id"]: f for f in feats if f}; a later entry replaces an
\* earlier one with the same id.  f["id"] raises on None and on an entry without id.
Fmap(fs) ==
    LET live == LiveEntries(fs)
        last(i) == CHOOSE k \in live : fs[k].id = i /\ \A j \in live : fs[j].id = i => j <= k
    IN  IF \E k \in live : fs[k].py # "dict" THEN Raise("TypeError")
        ELSE IF \E k \in live : "id" \notin DOMAIN fs[k] THEN Raise("KeyError")
        ELSE Return([i \in {fs[k].id : k \in live} |-> fs[last(i)]])

\* the comparison with > in place of >=
PassesTempoStrict(fmap, t, bpm) ==
    /\ t.id \in DOMAIN fmap
    /\ Truthy(fmap[t.id])
    /\ (IF "tempo" \in DOMAIN fmap[t.id] THEN fmap[t.id].tempo ELSE 0) > bpm

\* line 109: f and f.get("tempo", 0) >= min_bpm, with f = fmap.get(t["id"])
PassesTempo(fmap, t, bpm) ==
    /\ t.id \in DOMAIN fmap
    /\ Truthy(fmap[t.id])
    /\ (IF "tempo" \in DOMAIN fmap[t.id] THEN fmap[t.id].tempo ELSE 0) >= bpm

\* lines 106-110: the loop appending to result
RECURSIVE TempoLoop(_, _, _, _, _)
TempoLoop(b, fmap, bpm, k, result) ==
    IF k > Len(b) THEN result
    ELSE TempoLoop(b, fmap, bpm, k + 1,
                   IF PassesTempo(fmap, b[k], bpm) THEN Append(result, b[k]) ELSE result)

\* the filtered list returned whole
TempoResultNoTruncate(b, result, limit) ==
    IF result = <<>> THEN Take(b, limit) ELSE result

\* the filtered list returned even when it is empty
TempoResultNoFallback(b, result, limit) == Take(result, limit)

\* lines 112-115: the fallback and the truncation
TempoResult(b, result, limit) ==
    IF result = <<>> THEN Take(b, limit) ELSE Take(result, limit)

\* lines 104-115 of generate_tempo, after the two fetches
TempoFilter(b, fs, bpm, limit) ==
    LET fm == Fmap(fs)
    IN  IF fm.raised # NoException THEN fm
        ELSE Return(TempoResult(b, TempoLoop(b, fm.value, bpm, 1, <<>>), limit))

\* the search query of each mode, lines 96, 100, 119
BasicQuery(k) == k
TempoQuery(k) == k \o " upbeat dance"
CustomQuery(k, ukw) == k \o " " \o ukw

\* the limit passed to search_tracks, lines 96, 100, 119
BasicLimit(limit) == limit
TempoLimit(limit) == limit * OversampleFactor
CustomLimit(limit) == limit

-----------------------------------------------------------------------------
(* Playlist creation with the user's authorization *)

\* str(e) of the exception each step of create_playlist_auto can raise
PublishError(step) ==
    CASE step = "auth" -> "authorization denied"
      [] step = "me" -> "user profile request failed"
      [] step = "create" -> "playlist creation request failed"
      [] step = "add" -> "add items request failed"

\* line 130
PlaylistName(c, now) == "Weather Mix - " \o c \o " (" \o Strftime(now) \o ")"

\* a playlist created public
NewPlaylistPublic(c, now) ==
    [name |-> "Weather Mix - " \o c \o " (" \o Strftime(now) \o ")", public |-> TRUE,
     description |-> PlaylistDescription, items |-> <<>>]

\* lines 128-133: the playlist user_playlist_create makes
NewPlaylist(c, now) ==
    [name |-> PlaylistName(c, now), public |-> FALSE,
     description |-> PlaylistDescription, items |-> <<>>]

\* a publisher that swallows the failure of its last step
create_playlist_auto_soft(c, uris, now, failAt) ==
    CASE failAt \in {"auth", "me", "create"} ->
            [result |-> Raise(PublishError(failAt)), created |-> <<>>]
      [] OTHER ->
            [result |-> Return("https://open.spotify.com/playlist/" \o c),
             created |-> <<[name |-> "Weather Mix - " \o c \o " (" \o Strftime(now) \o ")",
                            public |-> FALSE, description |-> PlaylistDescription,
                            items |-> IF failAt = "add" THEN <<>> ELSE uris]>>]

\* create_playlist_auto, lines 124-136; failAt is the step that raises ("none":
\* no step does).  created: what the account holds afterwards.
create_playlist_auto(c, uris, now, failAt) ==
    CASE failAt \in {"auth", "me", "create"} ->
            [result |-> Raise(PublishError(failAt)), created |-> <<>>]
      [] failAt = "add" ->
            [result |-> Raise(PublishError(failAt)), created |-> <<NewPlaylist(c, now)>>]
      [] OTHER ->
            [result |-> Return("https://open.spotify.com/playlist/" \o c),
             created |-> <<[NewPlaylist(c, now) EXCEPT !.items = uris]>>]

-----------------------------------------------------------------------------
(* The services' answers: the inputs of the model *)

Cities == {"Seoul", "Busan"}
Modes == {"Basic", "Tempo", "Custom"}
TrackLimits ==
    {n \in MinTrackLimit..MaxTrackLimit : n <= MinTrackLimit + LimitSpan} \cup {MaxTrackLimit}
BpmChoices == {MinBpm, DefaultBpm, MaxBpm}
UserKeywords == {"summer", "pop happy summer"}
Nows == {[month |-> 1, day |-> 5, hour |-> 9, minute |-> 7],
         [month |-> 11, day |-> 30, hour |-> 21, minute |-> 45]}
PublishOutcomes == {"none", "auth", "me", "create", "add"}

\* conditions the weather service reports in the runs of Spec
RunConditions == {<<"C","l","e","a","r">>, <<"M","i","s","t">>}

TokenResponses ==
    {NetworkError, NotJson,
     Json([py |-> "dict", error |-> "invalid_client"]),
     Json([py |-> "dict", access_token |-> "BQD"])}

\* the service reports its status in cod; a city it does not know gets 404
WeatherResponses ==
    {NetworkError, NotJson,
     Json([py |-> "dict"]),
     Json([py |-> "dict", cod |-> 404, message |-> "city not found"])}
    \cup {Json([py |-> "dict", cod |-> HttpOk, main |-> m,
                description |-> "sky", temp |-> 21]) : m \in RunConditions}

\* the catalog's tracks
Track(i) == [id |-> i, name |-> "song " \o Pad2(i), uri |-> "spotify:track:" \o Pad2(i)]
TempoCycle == <<120, 100, 110, 90>>
CatalogTempo(i) == TempoCycle[((i - 1) % Len(TempoCycle)) + 1]

\* a result page of n tracks, in either order of relevance
PoolUp(n) == [k \in 1..n |-> Track(k)]
PoolDown(n) == [k \in 1..n |-> Track(n + 1 - k)]

\* the search answers with an error object, or, to an authorized request, with
\* a page of tracks; how long the page is, is the service's business
SearchResponses(headers) ==
    {NetworkError, Json([py |-> "dict", error |-> 401])}
    \cup (IF "Authorization" \in DOMAIN headers
          THEN {Json([py |-> "dict", tracks |-> [items |-> p]]) :
                    p \in {PoolUp(n) : n \in 0..MaxPool} \cup {PoolDown(n) : n \in 0..MaxPool}}
          ELSE {})

\* what the features service holds for a track it has features for, and how it
\* answers for one it has none for: a null entry, no entry, or an entry without tempo
FullEntry(i) == <<[py |-> "dict", id |-> i, tempo |-> CatalogTempo(i)]>>
BareEntry(i) ==
    CASE i % 3 = 1 -> <<PyNone>>
      [] i % 3 = 2 -> <<>>
      [] OTHER -> <<[py |-> "dict", id |-> i]>>

RECURSIVE FeatureList(_, _, _)
FeatureList(idlist, known, k) ==
    IF k > Len(idlist) THEN <<>>
    ELSE (IF idlist[k] \in known THEN FullEntry(idlist[k]) ELSE BareEntry(idlist[k]))
         \o FeatureList(idlist, known, k + 1)

FeatureResponses(idlist) ==
    {NetworkError, Json([py |-> "dict", error |-> 400])}
    \cup {Json([py |-> "dict", audio_features |-> FeatureList(idlist, known, 1)]) :
              known \in SUBSET {idlist[k] : k \in 1..Len(idlist)}}

-----------------------------------------------------------------------------
(* The script *)

RunLocalsCleared ==
    /\ weather' = PyNone
    /\ kw' = ""
    /\ base' = <<>>
    /\ feats' = <<>>
    /\ tracks' = <<>>
    /\ ids' = <<>>
    /\ calls' = <<>>
    /\ ui' = <<>>
    /\ playlists' = <<>>

\* The page as first loaded: the script has run once, fetching the token at
\* lines 65-72, with the widgets at their defaults and the button not pressed.
Init ==
    /\ pc = "Idle"
    /\ city = "Seoul"
    /\ mode = "Basic"
    /\ track_limit = DefaultTrackLimit
    /\ min_bpm = 0
    /\ user_kw = ""
    /\ make_playlist = FALSE
    /\ \E tresp \in TokenResponses :
          LET tok == get_app_token(tresp)
          IN  /\ uncaught = tok.raised
              /\ APP_TOKEN = tok.value
              /\ HEADERS = HeadersFor(tok.value)
    /\ weather = PyNone
    /\ kw = ""
    /\ base = <<>>
    /\ feats = <<>>
    /\ tracks = <<>>
    /\ ids = <<>>
    /\ calls = <<>>
    /\ ui = <<>>
    /\ playlists = <<>>

\* A press of the button reruns the script; get_app_token at line 71 raises and
\* the pass ends there, before the widgets and the handler.
ScriptAborts ==
    /\ pc = "Idle"
    /\ \E tresp \in TokenResponses :
          LET tok == get_app_token(tresp)
          IN  /\ tok.raised # NoException
              /\ uncaught' = tok.raised
    /\ UNCHANGED <<pc, city, mode, track_limit, min_bpm, user_kw, make_playlist,
                   APP_TOKEN, HEADERS, weather, kw, base, feats, tracks, ids,
                   calls, ui, playlists>>

\* A press of the button: lines 65-72 (token), 144-166 (widgets), 171-178
\* (weather lookup and its check).  Line 178 reads the description and the
\* temperature of the accepted answer and raises when they are missing.
Trigger ==
    /\ pc = "Idle"
    /\ \E tresp \in TokenResponses, c \in Cities, m \in Modes, l \in TrackLimits,
          b \in BpmChoices, u \in UserKeywords, mp \in BOOLEAN, wresp \in WeatherResponses :
          LET tok == get_app_token(tresp)
              w == get_weather(wresp).value
          IN  /\ tok.raised = NoException
              /\ APP_TOKEN' = tok.value
              /\ HEADERS' = HeadersFor(tok.value)
              /\ city' = c
              /\ mode' = m
              /\ track_limit' = l
              /\ min_bpm' = (IF m = "Tempo" THEN b ELSE 0)
              /\ b = (IF m = "Tempo" THEN b ELSE DefaultBpm)
              /\ user_kw' = (IF m = "Custom" THEN u ELSE "")
              /\ u = (IF m = "Custom" THEN u ELSE "summer")
              /\ make_playlist' = mp
              /\ weather' = w
              /\ calls' = <<WeatherCall(c)>>
              /\ IF WeatherRejected(w)
                 THEN /\ ui' = <<[kind |-> "error", text |-> MsgWeatherNotFound]>>
                      /\ pc' = "WeatherFailed"
                      /\ uncaught' = NoException
                 ELSE IF {"description", "temp"} \subseteq DOMAIN w
                 THEN /\ ui' = <<[kind |-> "success", text |-> MsgCurrentWeather,
                                  city |-> c, description |-> w.description,
                                  temp |-> w.temp]>>
                      /\ pc' = "WeatherFetched"
                      /\ uncaught' = NoException
                 ELSE /\ ui' = <<>>
                      /\ pc' = "Crashed"
                      /\ uncaught' = "KeyError"
    /\ UNCHANGED <<kw, base, feats, tracks, ids, playlists>>

\* a handler without the test of lines 189-191
AfterGenerateNoCheck(t) ==
    /\ ui' = ui
    /\ pc' = "TracksFetched"

\* lines 189-191 after a generate_* call returned t
AfterGenerate(t) ==
    IF t = <<>>
    THEN /\ ui' = Append(ui, [kind |-> "warning", text |-> MsgNoResults])
         /\ pc' = "NoTracks"
    ELSE /\ ui' = ui
         /\ pc' = "TracksFetched"

\* lines 180-181 with generate_basic, lines 94-96
GenerateBasic ==
    /\ pc = "WeatherFetched"
    /\ mode = "Basic"
    /\ \E sresp \in SearchResponses(HEADERS) :
          LET k == weather_to_keyword(weather)
              t == search_tracks(sresp).value
          IN  /\ kw' = k
              /\ calls' = Append(calls, SearchCall(BasicQuery(k), BasicLimit(track_limit), t))
              /\ tracks' = t
              /\ AfterGenerate(t)
    /\ UNCHANGED <<city, mode, track_limit, min_bpm, user_kw, make_playlist,
                   APP_TOKEN, HEADERS, weather, base, feats, ids, playlists, uncaught>>

\* lines 183-184 with generate_tempo, lines 98-115; an exception of
\* generate_tempo is caught nowhere and ends the pass
GenerateTempo ==
    /\ pc = "WeatherFetched"
    /\ mode = "Tempo"
    /\ \E sresp \in SearchResponses(HEADERS) :
          LET k == weather_to_keyword(weather)
              b == search_tracks(sresp).value
          IN  \E fresp \in FeatureResponses(IdsOf(b)) :
                 LET fs == get_audio_features(fresp).value
                     r == TempoFilter(b, fs, min_bpm, track_limit)
                 IN  /\ kw' = k
                     /\ base' = b
                     /\ feats' = fs
                     /\ calls' = calls \o
                            <<SearchCall(TempoQuery(k), TempoLimit(track_limit), b),
                              FeaturesCall(IdsOf(b))>>
                     /\ IF r.raised # NoException
                        THEN /\ uncaught' = r.raised
                             /\ tracks' = <<>>
                             /\ ui' = ui
                             /\ pc' = "Crashed"
                        ELSE /\ uncaught' = uncaught
                             /\ tracks' = r.value
                             /\ AfterGenerate(r.value)
    /\ UNCHANGED <<city, mode, track_limit, min_bpm, user_kw, make_playlist,
                   APP_TOKEN, HEADERS, weather, ids, playlists>>

\* lines 186-187 with generate_custom, lines 117-119
GenerateCustom ==
    /\ pc = "WeatherFetched"
    /\ mode = "Custom"
    /\ \E sresp \in SearchResponses(HEADERS) :
          LET k == weather_to_keyword(weather)
              t == search_tracks(sresp).value
          IN  /\ kw' = k
              /\ calls' = Append(calls,
                     SearchCall(CustomQuery(k, user_kw), CustomLimit(track_limit), t))
              /\ tracks' = t
              /\ AfterGenerate(t)
    /\ UNCHANGED <<city, mode, track_limit, min_bpm, user_kw, make_playlist,
                   APP_TOKEN, HEADERS, weather, base, feats, ids, playlists, uncaught>>

\* lines 193-203: the grid, one cell per track, and the URIs collected in ids
RenderedCells(t) ==
    [i \in 1..Len(t) |-> [kind |-> "track", column |-> (i - 1) % NumColumns,
                          name |-> t[i].name, uri |-> t[i].uri]]

Render ==
    /\ pc = "TracksFetched"
    /\ ui' = Append(ui, [kind |-> "subheader", text |-> MsgTracksHeader]) \o RenderedCells(tracks)
    /\ ids' = [i \in 1..Len(tracks) |-> tracks[i].uri]
    /\ base' = <<>>
    /\ feats' = <<>>
    /\ pc' = "Rendered"
    /\ UNCHANGED <<city, mode, track_limit, min_bpm, user_kw, make_playlist,
                   APP_TOKEN, HEADERS, weather, kw, tracks, calls, playlists, uncaught>>

\* lines 205-206
RequestPlaylist ==
    /\ pc = "Rendered"
    /\ make_playlist
    /\ ui' = Append(ui, [kind |-> "markdown", text |-> MsgCreatingPlaylist])
    /\ pc' = "PlaylistRequested"
    /\ UNCHANGED <<city, mode, track_limit, min_bpm, user_kw, make_playlist,
                   APP_TOKEN, HEADERS, weather, kw, base, feats, tracks, ids, calls,
                   playlists, uncaught>>

\* lines 207-212
Publish ==
    /\ pc = "PlaylistRequested"
    /\ \E now \in Nows, failAt \in PublishOutcomes :
          LET r == create_playlist_auto(city, ids, now, failAt)
          IN  /\ calls' = Append(calls, PlaylistCall(city, ids, failAt))
              /\ playlists' = playlists \o r.created
              /\ IF r.result.raised = NoException
                 THEN /\ ui' = ui \o <<[kind |-> "success", text |-> MsgPlaylistCreated],
                                       [kind |-> "link", text |-> r.result.value]>>
                      /\ pc' = "PlaylistCreated"
                 ELSE /\ ui' = Append(ui, [kind |-> "error",
                                           text |-> MsgPlaylistFailedPrefix \o r.result.raised])
                      /\ pc' = "PlaylistFailed"
    /\ UNCHANGED <<city, mode, track_limit, min_bpm, user_kw, make_playlist,
                   APP_TOKEN, HEADERS, weather, kw, base, feats, tracks, ids, uncaught>>

\* the pass of the script ends (st.stop() at 176 and 191, the end of the file,
\* or an uncaught exception); its locals are gone and the page waits for the
\* next press
Finish ==
    /\ \/ pc \in {"WeatherFailed", "NoTracks", "PlaylistCreated", "PlaylistFailed", "Crashed"}
       \/ pc = "Rendered" /\ ~make_playlist
    /\ pc' = "Idle"
    /\ RunLocalsCleared
    /\ UNCHANGED <<city, mode, track_limit, min_bpm, user_kw, make_playlist,
                   APP_TOKEN, HEADERS, uncaught>>

Next ==
    \/ ScriptAborts
    \/ Trigger
    \/ GenerateBasic
    \/ GenerateTempo
    \/ GenerateCustom
    \/ Render
    \/ RequestPlaylist
    \/ Publish
    \/ Finish

Spec == Init /\ [][Next]_vars

-----------------------------------------------------------------------------
(* weather_to_keyword on its own: every spelling of a set of conditions *)

UpperChar(c) ==
    IF \E i \in 1..26 : LowerLetters[i] = c
    THEN UpperLetters[CHOOSE i \in 1..26 : LowerLetters[i] = c]
    ELSE c

\* longest prefix of a word whose letters are tried in both cases
MaxCasedPrefix == 4

\* the word with the letters at the positions in S in upper case
Cased(word, S) == [i \in 1..Len(word) |-> IF i \in S THEN UpperChar(word[i]) ELSE word[i]]
CaseVariants(word) ==
    {Cased(word, S) : S \in SUBSET {i \in 1..Len(word) : i <= MaxCasedPrefix}}
    \cup {Cased(word, 1..Len(word))}

WordClear == <<"c","l","e","a","r">>
WordClouds == <<"c","l","o","u","d","s">>
WordRain == <<"r","a","i","n">>
WordSnow == <<"s","n","o","w">>
WordThunderstorm == <<"t","h","u","n","d","e","r","s","t","o","r","m">>
OtherWords ==
    {<<"m","i","s","t">>, <<"d","r","i","z","z","l","e">>, <<"h","a","z","e">>,
     <<"c","l","o","u","d">>, <<"r","a","i","n","y">>, <<"s","n","o","w"," ">>,
     <<"c","l","e","a","r","-","s","k","y">>, <<"8","0","0">>, <<>>}
MappedWords == {WordClear, WordClouds, WordRain, WordSnow, WordThunderstorm}

MoodConditions == UNION {CaseVariants(word) : word \in MappedWords \cup OtherWords}

InitMood ==
    /\ pc = "Idle"
    /\ city = "Seoul"
    /\ mode = "Basic"
    /\ track_limit = DefaultTrackLimit
    /\ min_bpm = 0
    /\ user_kw = ""
    /\ make_playlist = FALSE
    /\ uncaught = NoException
    /\ APP_TOKEN = PyNone
    /\ HEADERS = HeadersFor(PyNone)
    /\ weather \in {[py |-> "dict", cod |-> HttpOk, main |-> m,
                     description |-> "sky", temp |-> 21] : m \in MoodConditions}
    /\ kw = ""
    /\ base = <<>>
    /\ feats = <<>>
    /\ tracks = <<>>
    /\ ids = <<>>
    /\ calls = <<>>
    /\ ui = <<>>
    /\ playlists = <<>>

\* kw = weather_to_keyword(weather), lines 95, 99, 118
ApplyMood ==
    /\ kw = ""
    /\ kw' = weather_to_keyword(weather)
    /\ UNCHANGED <<pc, city, mode, track_limit, min_bpm, user_kw, make_playlist,
                   APP_TOKEN, HEADERS, weather, base, feats, tracks, ids, calls,
                   ui, playlists, uncaught>>

NextMood == ApplyMood

SpecMood == InitMood /\ [][NextMood]_vars

-----------------------------------------------------------------------------
(* Claims *)

\* C5: weather_to_keyword is total on the condition and, whatever the case of
\* its letters, maps clear, clouds, rain, snow and thunderstorm to their fixed
\* keywords and every other condition to "chill mood".
C5_Expected(main) ==
    CASE main \in CaseVariants(WordClear) -> "happy pop bright"
      [] main \in CaseVariants(WordClouds) -> "indie chill"
      [] main \in CaseVariants(WordRain) -> "lofi rainy chill"
      [] main \in CaseVariants(WordSnow) -> "cozy acoustic"
      [] main \in CaseVariants(WordThunderstorm) -> "dark edm"
      [] OTHER -> "chill mood"

\* C5: the keyword computed is the one the table fixes for the condition's
\* lower-cased spelling, and the computation is defined for every condition.
C5_MoodMapping ==
    /\ kw # "" => kw = C5_Expected(weather.main)
    /\ kw = "" /\ weather.py = "dict" /\ "main" \in DOMAIN weather => ENABLED ApplyMood

C5_Witness ==
    /\ weather.py = "dict"
    /\ "main" \in DOMAIN weather
    /\ weather.main = <<"R","a","I","n">>
    /\ kw = "lofi rainy chill"

-----------------------------------------------------------------------------
(* Vocabulary of the claims about the runs of Spec *)

Count(op) == Cardinality({k \in 1..Len(calls) : calls[k].op = op})
LastOf(seq) == seq[Len(seq)]

\* the features answer has a non-null entry for the track
HasFeatureEntry(t) ==
    \E k \in 1..Len(feats) :
        /\ feats[k].py = "dict"
        /\ "id" \in DOMAIN feats[k]
        /\ feats[k].id = t.id

\* the features answer gives the track a tempo of at least min_bpm
MeetsThreshold(t) ==
    \E k \in 1..Len(feats) :
        /\ feats[k].py = "dict"
        /\ "id" \in DOMAIN feats[k]
        /\ feats[k].id = t.id
        /\ "tempo" \in DOMAIN feats[k]
        /\ feats[k].tempo >= min_bpm

\* generate_tempo has returned and its locals are still in view
TempoReturned == mode = "Tempo" /\ pc \in {"TracksFetched", "NoTracks"}

\* the catalog answered the search with no more than the limit it was given
CatalogHonouredLimit ==
    \A k \in 1..Len(calls) :
        calls[k].op = "search_tracks" => calls[k].returned <= calls[k].limit

\* the URIs of the cells drawn on the page, in the order drawn
RenderedUris ==
    LET cells == SelectSeq(ui, LAMBDA e : e.kind = "track")
    IN  [i \in 1..Len(cells) |-> cells[i].uri]

\* C1 as stated: the track list of every mode has at most track_limit entries,
\* whatever list the catalog search answers with.
C1_TrackLimitWhateverCatalog == Len(tracks) <= track_limit

\* C1 amended: Tempo's list has at most track_limit entries whatever the catalog
\* answers with; Basic's and Custom's list is the catalog's answer as it came, so
\* it has at most track_limit entries when the catalog kept to the limit it was given.
C1_TrackLimit ==
    /\ mode = "Tempo" => Len(tracks) <= track_limit
    /\ mode # "Tempo" =>
          \A k \in 1..Len(calls) :
              calls[k].op = "search_tracks" =>
                  /\ calls[k].limit = track_limit
                  /\ Len(tracks) = calls[k].returned
                  /\ (calls[k].returned <= calls[k].limit => Len(tracks) <= track_limit)

C1_Witness ==
    /\ mode = "Tempo"
    /\ pc = "TracksFetched"
    /\ Len(base) > track_limit
    /\ Len(tracks) = track_limit

C3_TempoFilterOrder ==
    TempoReturned /\ (\E i \in 1..Len(base) : MeetsThreshold(base[i])) =>
        LET kept == SelectSeq(base, MeetsThreshold)
        IN  tracks = SubSeq(kept, 1, IF Len(kept) < track_limit THEN Len(kept) ELSE track_limit)

C3_Witness ==
    /\ TempoReturned
    /\ min_bpm = DefaultBpm
    /\ Len(SelectSeq(base, MeetsThreshold)) < Len(base)
    /\ Len(SelectSeq(base, MeetsThreshold)) >= 2
    /\ base[1].id > base[2].id

C6_WeatherFailureHalts ==
    LET failed == \/ weather.py = "None"
                  \/ "cod" \notin DOMAIN weather
                  \/ (IF "cod" \in DOMAIN weather THEN weather.cod # 200 ELSE TRUE)
    IN  pc # "Idle" /\ failed =>
            /\ pc = "WeatherFailed"
            /\ ui = <<[kind |-> "error", text |-> MsgWeatherNotFound]>>
            /\ calls = <<WeatherCall(city)>>
            /\ tracks = <<>>
            /\ ids = <<>>
            /\ playlists = <<>>

C6_Witness ==
    /\ pc = "WeatherFailed"
    /\ "cod" \in DOMAIN weather
    /\ weather.cod = 404

\* C7 as stated: none of get_weather, search_tracks, get_audio_features and
\* get_app_token lets an exception reach its caller.
C7_FailSoftNeverRaises == uncaught = NoException

\* C8: a failure of any step of the publisher reaches the handler, which reports
\* "playlist creation failed: " with the exception's text and no success; the
\* run is in PlaylistFailed and the publisher was called once.
C8_PublisherFailLoud ==
    /\ \A k \in 1..Len(calls) :
          calls[k].op = "create_playlist_auto" /\ calls[k].failed # "none" =>
              /\ pc = "PlaylistFailed"
              /\ LastOf(ui) = [kind |-> "error",
                               text |-> MsgPlaylistFailedPrefix \o PublishError(calls[k].failed)]
              /\ \A j \in 1..Len(ui) :
                    /\ ui[j].kind # "link"
                    /\ ~(ui[j].kind = "success" /\ ui[j].text = MsgPlaylistCreated)
              /\ Count("create_playlist_auto") = 1
              /\ uncaught = NoException
    /\ pc = "PlaylistFailed" =>
          \E k \in 1..Len(calls) :
              calls[k].op = "create_playlist_auto" /\ calls[k].failed # "none"

C8_Witness ==
    /\ pc = "PlaylistFailed"
    /\ LastOf(calls).failed = "add"
    /\ Len(playlists) = 1

\* C9: a run moves Idle -> WeatherFetched | WeatherFailed -> TracksFetched |
\* NoTracks -> Rendered -> [PlaylistRequested -> PlaylistCreated | PlaylistFailed]
\* -> Idle and never back; WeatherFailed and NoTracks (an empty list, reported
\* with "no recommendation results") end it; the search comes after a successful
\* weather lookup, the publisher after Rendered and only when asked for; and each
\* external operation is called at most once in a run.
C9_Edges ==
    {<<"Idle", "Idle">>, <<"Idle", "WeatherFetched">>, <<"Idle", "WeatherFailed">>,
     <<"WeatherFailed", "Idle">>,
     <<"WeatherFetched", "TracksFetched">>, <<"WeatherFetched", "NoTracks">>,
     <<"NoTracks", "Idle">>,
     <<"TracksFetched", "Rendered">>,
     <<"Rendered", "PlaylistRequested">>, <<"Rendered", "Idle">>,
     <<"PlaylistRequested", "PlaylistCreated">>, <<"PlaylistRequested", "PlaylistFailed">>,
     <<"PlaylistCreated", "Idle">>, <<"PlaylistFailed", "Idle">>}

C9_StateOK ==
    /\ \A op \in {"get_weather", "search_tracks", "get_audio_features",
                  "create_playlist_auto"} : Count(op) <= 1
    /\ pc = "Idle" => calls = <<>>
    /\ pc # "Idle" => calls[1].op = "get_weather"
    /\ Count("search_tracks") = 1 =>
          /\ "cod" \in DOMAIN weather
          /\ weather.cod = 200
          /\ calls[2].op = "search_tracks"
    /\ Count("get_audio_features") = 1 =>
          /\ mode = "Tempo"
          /\ calls[2].op = "search_tracks"
          /\ calls[3].op = "get_audio_features"
    /\ Count("create_playlist_auto") = 1 =>
          /\ make_playlist
          /\ pc \in {"PlaylistCreated", "PlaylistFailed"}
          /\ \E j \in 1..Len(ui) : ui[j] = [kind |-> "subheader", text |-> MsgTracksHeader]
          /\ RenderedUris # <<>>
    /\ pc = "WeatherFetched" => Count("search_tracks") = 0
    /\ pc = "NoTracks" =>
          /\ tracks = <<>>
          /\ LastOf(ui) = [kind |-> "warning", text |-> MsgNoResults]
    /\ pc \in {"TracksFetched", "Rendered", "PlaylistRequested", "PlaylistCreated",
               "PlaylistFailed"} =>
          /\ tracks # <<>>
          /\ Count("search_tracks") = 1
    /\ pc \in {"Rendered", "PlaylistRequested"} => Count("create_playlist_auto") = 0

C9_Step ==
    /\ <<pc, pc'>> \in C9_Edges
    /\ pc = "Rendered" /\ pc' = "PlaylistRequested" => make_playlist
    /\ pc = "Rendered" /\ pc' = "Idle" => ~make_playlist
    /\ pc # "Idle" /\ pc' # "Idle" =>
          /\ Len(calls') >= Len(calls)
          /\ SubSeq(calls', 1, Len(calls)) = calls
    /\ C9_StateOK'

\* C9: every step of every run is a step of the linear state machine and leaves
\* the calls of the run as the claim has them.
C9_LinearRun == [][C9_Step]_vars

C9_Witness ==
    /\ pc = "PlaylistCreated"
    /\ Len(calls) = 4
    /\ Count("get_weather") = 1
    /\ Count("search_tracks") = 1
    /\ Count("get_audio_features") = 1
    /\ Count("create_playlist_auto") = 1

\* C10: once publishing was requested in a run that reached Rendered,
\* the publisher has created exactly one private playlist named "Weather Mix -
\* {city} (MM/DD HH:MM)" holding exactly the rendered tracks' URIs in rendered
\* order, a non-empty list of at most track_limit entries.
C10_Stamps == {"01/05 09:07", "11/30 21:45"}

C10_Published ==
    /\ Len(playlists) = 1
    /\ playlists[1].name \in {"Weather Mix - " \o city \o " (" \o st \o ")" : st \in C10_Stamps}
    /\ playlists[1].public = FALSE
    /\ playlists[1].items = RenderedUris
    /\ playlists[1].items = [i \in 1..Len(tracks) |-> tracks[i].uri]
    /\ playlists[1].items # <<>>
    /\ Count("create_playlist_auto") = 1
    /\ LastOf(calls).ids = playlists[1].items

====
